---------------------------- MODULE Spec2Model ----------------------------
(***************************************************************************)
(* A model of codebase-digest (src/codebase_digest/app.py): the ignore     *)
(* pattern matcher, the pattern loaders and the directory walker.          *)
(*                                                                         *)
(* Strings are sequences of one-character strings, so that the path and    *)
(* glob operations are computed character by character as the Python       *)
(* library computes them.                                                  *)
(***************************************************************************)
EXTENDS Integers, Sequences, FiniteSets, TLC

(***************************************************************************)
(* Bounds of the model.                                                    *)
(***************************************************************************)
\* longest relative path (in segments) handed to should_ignore
MaxSegs == 3
\* largest pattern set handed to should_ignore
MaxPatterns == 2
\* most lines of the ignore file read by load_ignore_patterns and load_gitignore
MaxLines == 4
\* most lines of the .gitignore read by an IgnorePatternManager
MaxGitLines == 2
\* depth of the deepest directory of the tree analyze_directory walks
FsDepth == 2

MaxExtra == 2

FmtDepth == 1

KB == 1024

MaxFiles == 2

PerFileOverhead == 100

SummaryOverhead == 1000
\* largest max_depth given to analyze_directory
MaxDepthArg == 2

(***************************************************************************)
(* Strings.                                                                *)
(***************************************************************************)
SEP == "/"

StartsWith(s, c) == Len(s) > 0 /\ s[1] = c

EndsWith(s, c) == Len(s) > 0 /\ s[Len(s)] = c

\* s[i:] of Python, i counted from 0
From(s, i) == SubSeq(s, i + 1, Len(s))

\* s.find(c): the 1-based index of the first c in s, 0 when there is none
Find(s, c) ==
  IF \E i \in 1..Len(s) : s[i] = c
  THEN CHOOSE i \in 1..Len(s) : s[i] = c /\ \A j \in 1..(i - 1) : s[j] # c
  ELSE 0

\* s.rfind(c) + 1: the 1-based index of the last c in s, 0 when there is none
RFind(s, c) ==
  IF \E i \in 1..Len(s) : s[i] = c
  THEN CHOOSE i \in 1..Len(s) : s[i] = c /\ \A j \in (i + 1)..Len(s) : s[j] # c
  ELSE 0

\* s.split(c): the pieces between the separators, empty pieces kept
RECURSIVE Split(_, _)
Split(s, c) ==
  LET i == Find(s, c)
  IN  IF i = 0 THEN <<s>>
      ELSE <<SubSeq(s, 1, i - 1)>> \o Split(SubSeq(s, i + 1, Len(s)), c)

\* c.join(parts)
RECURSIVE JoinWith(_, _)
JoinWith(parts, c) ==
  IF Len(parts) = 0 THEN <<>>
  ELSE IF Len(parts) = 1 THEN parts[1]
  ELSE parts[1] \o <<c>> \o JoinWith(Tail(parts), c)

\* [x for x in parts if x]
RECURSIVE NonEmptyParts(_)
NonEmptyParts(parts) ==
  IF Len(parts) = 0 THEN <<>>
  ELSE (IF Len(parts[1]) > 0 THEN <<parts[1]>> ELSE <<>>)
         \o NonEmptyParts(Tail(parts))

(***************************************************************************)
(* posixpath, as should_ignore and analyze_directory call it.              *)
(***************************************************************************)
\* os.getcwd(): the directory the tool is started in
Cwd == <<"/", "w">>

\* os.path.basename
basename(p) == From(p, RFind(p, SEP))

\* os.path.isabs
isabs(p) == StartsWith(p, SEP)

\* os.path.join(a, b)
join(a, b) ==
  IF StartsWith(b, SEP) THEN b
  ELSE IF Len(a) = 0 \/ EndsWith(a, SEP) THEN a \o b
  ELSE a \o <<SEP>> \o b

\* the loop of os.path.normpath over the components
RECURSIVE NormComps(_, _, _)
NormComps(comps, new_comps, initial_slashes) ==
  IF Len(comps) = 0 THEN new_comps
  ELSE LET comp == comps[1]
           rest == Tail(comps)
       IN  IF comp = <<>> \/ comp = <<".">>
           THEN NormComps(rest, new_comps, initial_slashes)
           ELSE IF \/ comp # <<".", ".">>
                   \/ (initial_slashes = 0 /\ Len(new_comps) = 0)
                   \/ (Len(new_comps) > 0 /\ new_comps[Len(new_comps)] = <<".", ".">>)
           THEN NormComps(rest, Append(new_comps, comp), initial_slashes)
           ELSE IF Len(new_comps) > 0
           THEN NormComps(rest, SubSeq(new_comps, 1, Len(new_comps) - 1), initial_slashes)
           ELSE NormComps(rest, new_comps, initial_slashes)

\* os.path.normpath
normpath(path) ==
  IF Len(path) = 0 THEN <<".">>
  ELSE LET initial_slashes ==
             IF ~StartsWith(path, SEP) THEN 0
             ELSE IF Len(path) >= 2 /\ path[2] = SEP /\ ~(Len(path) >= 3 /\ path[3] = SEP)
             THEN 2 ELSE 1
           comps == NormComps(Split(path, SEP), <<>>, initial_slashes)
           body == JoinWith(comps, SEP)
           res == [i \in 1..initial_slashes |-> SEP] \o body
       IN  IF Len(res) = 0 THEN <<".">> ELSE res

\* os.path.abspath
abspath(path) == normpath(IF isabs(path) THEN path ELSE join(Cwd, path))

\* os.path.commonprefix of two lists of components: the length of the prefix
RECURSIVE CommonLen(_, _)
CommonLen(a, b) ==
  IF Len(a) = 0 \/ Len(b) = 0 \/ a[1] # b[1] THEN 0
  ELSE 1 + CommonLen(Tail(a), Tail(b))

\* os.path.relpath(path, start)
relpath(path, start) ==
  LET start_list == NonEmptyParts(Split(abspath(start), SEP))
      path_list == NonEmptyParts(Split(abspath(path), SEP))
      i == CommonLen(start_list, path_list)
      rel_list == [k \in 1..(Len(start_list) - i) |-> <<".", ".">>]
                    \o SubSeq(path_list, i + 1, Len(path_list))
  IN  IF Len(rel_list) = 0 THEN <<".">> ELSE JoinWith(rel_list, SEP)

(***************************************************************************)
(* fnmatch.fnmatch on POSIX (normcase is the identity): the pattern is     *)
(* translated to a regular expression in which '*' is '.*' and '?' is '.', *)
(* both with DOTALL, and every other character stands for itself; the      *)
(* whole name must match.  The model's alphabet holds no '['.              *)
(***************************************************************************)
\* the match of name[i..] against pat[j..]; dotall says whether '*' and '?'
\* match the path separator like any other character
RECURSIVE MatchFrom(_, _, _, _, _)
MatchFrom(name, pat, i, j, dotall) ==
  IF j > Len(pat) THEN i > Len(name)
  ELSE IF pat[j] = "*"
  THEN \/ MatchFrom(name, pat, i, j + 1, dotall)
       \/ /\ i <= Len(name)
          /\ dotall \/ name[i] # SEP
          /\ MatchFrom(name, pat, i + 1, j, dotall)
  ELSE IF pat[j] = "?"
  THEN /\ i <= Len(name)
       /\ dotall \/ name[i] # SEP
       /\ MatchFrom(name, pat, i + 1, j + 1, dotall)
  ELSE i <= Len(name) /\ name[i] = pat[j] /\ MatchFrom(name, pat, i + 1, j + 1, dotall)

\* wildcards that stop at a path separator, as in glob
fnmatch_StarStopsAtSep(name, pat) == MatchFrom(name, pat, 1, 1, FALSE)

fnmatch(name, pat) == MatchFrom(name, pat, 1, 1, TRUE)

(***************************************************************************)
(* should_ignore(path, base_path, ignore_patterns)                         *)
(***************************************************************************)
\* (a quantifier over a one-element set binds a local of the function to its
\* value, computed once)
\* the body with the component-wise test left out
should_ignore_NoParts(path, base_path, ignore_patterns) ==
  \E name \in {basename(path)}, rel_path \in {relpath(path, base_path)},
     abs_path \in {abspath(path)} :
    \E pattern \in ignore_patterns :
      \/ fnmatch(name, pattern)
      \/ fnmatch(rel_path, pattern)
      \/ fnmatch(abs_path, pattern)
      \/ (StartsWith(pattern, SEP) /\ fnmatch(abs_path, join(base_path, From(pattern, 1))))

should_ignore(path, base_path, ignore_patterns) ==
  \E name \in {basename(path)}, rel_path \in {relpath(path, base_path)},
     abs_path \in {abspath(path)} :
    \E parts \in {Split(rel_path, SEP)} :
      \E pattern \in ignore_patterns :
        \/ fnmatch(name, pattern)
        \/ fnmatch(rel_path, pattern)
        \/ fnmatch(abs_path, pattern)
        \/ (StartsWith(pattern, SEP) /\ fnmatch(abs_path, join(base_path, From(pattern, 1))))
        \/ \E k \in 1..Len(parts) : fnmatch(parts[k], pattern)

(***************************************************************************)
(* The pattern sources: DEFAULT_IGNORE_PATTERNS, load_gitignore and        *)
(* load_ignore_patterns.  A file is the sequence of its characters; the    *)
(* whitespace of the model is the space and the newline.                    *)
(***************************************************************************)
DEFAULT_IGNORE_PATTERNS == {
    <<"*", ".", "p", "y", "c">>,
    <<"*", ".", "p", "y", "o">>,
    <<"*", ".", "p", "y", "d">>,
    <<"_", "_", "p", "y", "c", "a", "c", "h", "e", "_", "_">>,
    <<"n", "o", "d", "e", "_", "m", "o", "d", "u", "l", "e", "s">>,
    <<"b", "o", "w", "e", "r", "_", "c", "o", "m", "p", "o", "n", "e", "n", "t", "s">>,
    <<".", "g", "i", "t">>,
    <<".", "s", "v", "n">>,
    <<".", "h", "g">>,
    <<".", "g", "i", "t", "i", "g", "n", "o", "r", "e">>,
    <<"v", "e", "n", "v">>,
    <<".", "v", "e", "n", "v">>,
    <<"e", "n", "v">>,
    <<".", "i", "d", "e", "a">>,
    <<".", "v", "s", "c", "o", "d", "e">>,
    <<"*", ".", "l", "o", "g">>,
    <<"*", ".", "b", "a", "k">>,
    <<"*", ".", "s", "w", "p">>,
    <<"*", ".", "t", "m", "p">>,
    <<".", "D", "S", "_", "S", "t", "o", "r", "e">>,
    <<"T", "h", "u", "m", "b", "s", ".", "d", "b">>,
    <<"b", "u", "i", "l", "d">>,
    <<"d", "i", "s", "t">>,
    <<"*", ".", "e", "g", "g", "-", "i", "n", "f", "o">>,
    <<"*", ".", "s", "o">>,
    <<"*", ".", "d", "y", "l", "i", "b">>,
    <<"*", ".", "d", "l", "l">>
  }

NL == "\n"

Whitespace == {" ", NL}

\* for line in f: the lines of the file, each with its newline
RECURSIVE FileLines(_)
FileLines(content) ==
  IF Len(content) = 0 THEN <<>>
  ELSE LET i == Find(content, NL)
       IN  IF i = 0 THEN <<content>>
           ELSE <<SubSeq(content, 1, i)>> \o FileLines(SubSeq(content, i + 1, Len(content)))

RECURSIVE lstrip(_)
lstrip(s) == IF Len(s) > 0 /\ s[1] \in Whitespace THEN lstrip(Tail(s)) ELSE s

RECURSIVE rstrip(_)
rstrip(s) ==
  IF Len(s) > 0 /\ s[Len(s)] \in Whitespace THEN rstrip(SubSeq(s, 1, Len(s) - 1)) ELSE s

\* str.strip()
strip(s) == rstrip(lstrip(s))

\* the filter of both comprehensions with the comment test made on the
\* stripped line
KeepLine_StripFirst(line) == Len(strip(line)) > 0 /\ ~StartsWith(strip(line), "#")

\* if line.strip() and not line.startswith('#')
KeepLine(line) == Len(strip(line)) > 0 /\ ~StartsWith(line, "#")

\* [line.strip() for line in f if ...]
RECURSIVE StrippedKept(_)
StrippedKept(lines) ==
  IF Len(lines) = 0 THEN <<>>
  ELSE (IF KeepLine(lines[1]) THEN <<strip(lines[1])>> ELSE <<>>)
         \o StrippedKept(Tail(lines))

\* a file of a directory: whether os.path.exists finds it, and its text
NoFile == [exists |-> FALSE, content |-> <<>>]

load_gitignore_ReadsNothing(gitignore) == <<>>

\* load_gitignore(path), given the .gitignore of path
load_gitignore(gitignore) ==
  IF gitignore.exists THEN StrippedKept(FileLines(gitignore.content)) ELSE <<>>

update_Overwrite(patterns, more) == more

\* patterns.update(more)
update(patterns, more) == patterns \cup more

ListItems(list) == {list[i] : i \in 1..Len(list)}

\* load_ignore_patterns(args, base_path), given the .cdigestignore of
\* base_path; args.ignore is a list, and the empty list stands for None
load_ignore_patterns(args, cdigestignore) ==
  LET p0 == {}
      p1 == IF ~args.no_default_ignores THEN update(p0, DEFAULT_IGNORE_PATTERNS) ELSE p0
      p2 == IF Len(args.ignore) > 0 THEN update(p1, ListItems(args.ignore)) ELSE p1
      file_patterns == ListItems(StrippedKept(FileLines(cdigestignore.content)))
  IN  IF cdigestignore.exists THEN update(p2, file_patterns) ELSE p2

\* IgnorePatternManager(base_path, load_default_ignore_patterns,
\* load_gitignore, load_cdigestignore, extra_ignore_patterns).ignore_patterns
IgnorePatternManager(cfg, gitignore, cdigestignore) ==
  LET p0 == {}
      p1 == IF cfg.load_default_ignore_patterns
            THEN update(p0, DEFAULT_IGNORE_PATTERNS) ELSE p0
      p2 == IF cfg.load_cdigestignore /\ cdigestignore.exists
            THEN update(p1, ListItems(StrippedKept(FileLines(cdigestignore.content))))
            ELSE p1
      p3 == IF cfg.load_gitignore THEN update(p2, ListItems(load_gitignore(gitignore))) ELSE p2
  IN  update(p3, cfg.extra_ignore_patterns)

(***************************************************************************)
(* is_text_file, read_file_content and the nodes analyze_directory builds. *)
(* A file is the sequence of its bytes; a text is the sequence of its      *)
(* code points.                                                            *)
(***************************************************************************)
\* file.read(1024)
ChunkSize == 1024

\* bytes([7, 8, 9, 10, 12, 13, 27] + list(range(0x20, 0x100)))
TextBytes == {7, 8, 9, 10, 12, 13, 27} \cup (32..255)

\* a file as open() finds it: whether it can be opened and read, and its bytes
File(readable, bytes) == [readable |-> readable, bytes |-> bytes]

\* file.read(1024)
Chunk(bytes) == SubSeq(bytes, 1, IF Len(bytes) < ChunkSize THEN Len(bytes) ELSE ChunkSize)

\* the whole file is inspected, not its first chunk
is_text_file_WholeFile(file) ==
  file.readable /\ \A i \in 1..Len(file.bytes) : file.bytes[i] \in TextBytes

\* is_text_file(file_path): no byte of the chunk is left once the text bytes
\* are deleted; an IOError of open or read gives False
is_text_file(file) ==
  file.readable /\ \A i \in 1..Len(Chunk(file.bytes)) : Chunk(file.bytes)[i] \in TextBytes

IsAscii(b) == b < 128

\* str(e) of the exception open() raises
StrError == <<69, 65, 67, 67, 69, 83>>

\* f"Error reading file: {str(e)}"
ErrorReading(e) ==
  <<69, 114, 114, 111, 114, 32, 114, 101, 97, 100, 105, 110, 103, 32, 102, 105, 108,
    101, 58, 32>> \o e

\* read_file_content(file_path): utf-8 with errors='ignore'; the files of the
\* model hold no multi-byte sequence, so every byte above 127 is dropped; any
\* exception gives the error text
read_file_content(file) ==
  IF file.readable THEN SelectSeq(file.bytes, IsAscii) ELSE ErrorReading(StrError)

\* "[Non-text file]"
NON_TEXT == <<91, 78, 111, 110, 45, 116, 101, 120, 116, 32, 102, 105, 108, 101, 93>>

\* the value None
NoNode == [type |-> "none", name |-> <<>>, is_ignored |-> FALSE, children |-> <<>>,
           file_content |-> <<>>]

\* DirectoryAnalysis(name=...)
DirectoryAnalysis(name) ==
  [type |-> "dir", name |-> name, is_ignored |-> FALSE, children |-> <<>>,
   file_content |-> <<>>]

\* TextFileAnalysis(name=..., file_content=..., is_ignored=...)
TextFileAnalysis(name, file_content, is_ignored) ==
  [type |-> "file", name |-> name, is_ignored |-> is_ignored, children |-> <<>>,
   file_content |-> file_content]

\* the content is read whatever the probe said
file_content_AlwaysRead(is_text, file) == read_file_content(file)

\* lines 113-118: content = read_file_content(item_path) if is_text, else
\* "[Non-text file]"
file_content(is_text, file) == IF is_text THEN read_file_content(file) ELSE NON_TEXT

depth_exceeded_AtLimit(max_depth, current_depth) ==
  max_depth.given /\ current_depth >= max_depth.value

\* max_depth is not None and current_depth > max_depth
depth_exceeded(max_depth, current_depth) ==
  max_depth.given /\ current_depth > max_depth.value

caught_Nothing(error) == FALSE

caught_Everything(error) == TRUE

\* except PermissionError
caught(error) == error = "PermissionError"

(***************************************************************************)
(* The directory analyze_directory walks.  An entry is the sequence of the *)
(* names from the root down to it.  The root and the directories 'sub'     *)
(* nested in it, down to FsDepth, hold two files and three directories;    *)
(* every other directory holds the two files.                              *)
(***************************************************************************)
F_a == <<"a", ".", "t">>
F_b == <<"b", ".", "b">>
D_git == <<".", "g", "i", "t">>
D_p == <<"p">>
D_sub == <<"s", "u", "b">>

FileNames == {F_a, F_b}

DirNames == {D_git, D_p, D_sub}

IsChain(segs) == \A i \in 1..Len(segs) : segs[i] = D_sub

\* os.listdir(path), in the order the platform lists it
Listing(segs) ==
  IF IsChain(segs) /\ Len(segs) < FsDepth
  THEN <<F_a, D_git, D_p, F_b, D_sub>>
  ELSE <<F_a, F_b>>

\* os.path.isfile(item_path)
isfile(segs) == Len(segs) > 0 /\ segs[Len(segs)] \in FileNames

\* os.path.isdir(item_path)
isdir(segs) == Len(segs) > 0 /\ segs[Len(segs)] \in DirNames

\* the bytes of a file: a.t holds 'hi', b.b holds a NUL byte
BytesOf(segs) == IF segs[Len(segs)] = F_a THEN <<104, 105>> ELSE <<0, 98>>

\* the directories of the tree, the root included
Dirs ==
  {segs \in UNION {[1..n -> DirNames] : n \in 0..FsDepth} :
     IsChain(SubSeq(segs, 1, Len(segs) - 1))}

(***************************************************************************)
(* State.                                                                  *)
(*  m_*: one call of should_ignore: its arguments, its position and what   *)
(*       it returned.  The path is base_path joined with the segments of   *)
(*       m_segs, one os.path.join per segment, as analyze_directory builds *)
(*       item_path.                                                        *)
(*  f_*: the ignore files of base_path.                                    *)
(*  l_*: one call of load_ignore_patterns or of load_gitignore.            *)
(*  k_*: one construction of an IgnorePatternManager.                      *)
(*  w_*: one call of analyze_directory on the root: its arguments (w_cfg), *)
(*       the directory whose listing fails and how (w_fault), the stack of *)
(*       its recursive calls, the debug line of each path it checked       *)
(*       (w_log), how the call ended and the tree it returned;             *)
(*       w_filefault is the file on which getsize or an open fails.        *)
(*  p_*: one call of is_text_file.                                         *)
(*  g_*: one run of the formatters over a tree: the tree string, the       *)
(*       content entries and the summary.                                  *)
(*  a_*: one run of main: its arguments, the files the size estimate     *)
(*       walks over, its position, the answer to the prompt, and           *)
(*       what it has done so far.                                          *)
(***************************************************************************)
VARIABLES m_base, m_segs, m_patterns, m_pc, m_result,
          f_cdigestignore, f_gitignore,
          l_pc, l_args, l_patterns, l_gitlist,
          k_pc, k_cfg, k_patterns,
          w_cfg, w_fault, w_filefault, w_stack, w_log, w_status, w_data,
          p_file, p_pc, p_result,
          g_node, g_args, g_pc, g_tree_string, g_content, g_summary,
          a_args, a_files, a_pc, a_estimated, a_proceed, a_called, a_written,
          a_copied, a_exit

mvars == <<m_base, m_segs, m_patterns, m_pc, m_result>>

fvars == <<f_cdigestignore, f_gitignore>>

lvars == <<l_pc, l_args, l_patterns, l_gitlist>>

kvars == <<k_pc, k_cfg, k_patterns>>

wvars == <<w_cfg, w_fault, w_filefault, w_stack, w_log, w_status, w_data>>

pvars == <<p_file, p_pc, p_result>>

gvars == <<g_node, g_args, g_pc, g_tree_string, g_content, g_summary>>

avars == <<a_args, a_files, a_pc, a_estimated, a_proceed, a_called, a_written,
           a_copied, a_exit>>

vars == <<mvars, fvars, lvars, kvars, wvars, pvars, gvars, avars>>

(***************************************************************************)
(* Inputs of the matcher.                                                  *)
(***************************************************************************)
N_sub == <<"s", "u", "b">>
N_subd == <<"s", "u", "b", "d">>
N_tx == <<"t", ".", "x">>

SegNames == {N_sub, N_subd, N_tx}

SegPaths == UNION {[1..n -> SegNames] : n \in 1..MaxSegs}

\* base_path as the caller gives it: '.', './t' and the absolute '/w/t'
B_dot == <<".">>
B_rel == <<".", "/", "t">>
B_abs == <<"/", "w", "/", "t">>

Bases == {B_dot, B_rel, B_abs}

P_tx == N_tx
P_sub == N_sub
P_rel == <<"s", "u", "b", "/", "t", ".", "x">>
P_anchored == <<"/", "s", "u", "b", "/", "t", ".", "x">>
P_anchoredTop == <<"/", "t", ".", "x">>
P_absolute == <<"/", "w", "/", "t", "/", "s", "u", "b", "/", "t", ".", "x">>
P_ext == <<"*", ".", "x">>
P_one == <<"s", "?", "b">>
P_cross == <<"s", "*", "x">>

MatchPatterns ==
  {P_tx, P_sub, P_rel, P_anchored, P_anchoredTop, P_absolute, P_ext, P_one, P_cross}

PatternSets == {ps \in SUBSET MatchPatterns : Cardinality(ps) <= MaxPatterns}

\* item_path: os.path.join(path, item) applied from base_path down the segments
RECURSIVE PathOf(_, _)
PathOf(path, segs) ==
  IF Len(segs) = 0 THEN path
  ELSE PathOf(join(path, segs[1]), Tail(segs))

MatchIdle ==
  /\ m_pc = "idle"
  /\ m_base = <<>>
  /\ m_segs = <<>>
  /\ m_patterns = {}
  /\ m_result = FALSE

NoArgs == [no_default_ignores |-> FALSE, ignore |-> <<>>]

LoadIdle ==
  /\ l_pc = "idle"
  /\ l_args = NoArgs
  /\ l_patterns = {}
  /\ l_gitlist = <<>>

NoCfg ==
  [load_default_ignore_patterns |-> FALSE, load_gitignore |-> FALSE,
   load_cdigestignore |-> FALSE, extra_ignore_patterns |-> {}]

ManagerIdle ==
  /\ k_pc = "idle"
  /\ k_cfg = NoCfg
  /\ k_patterns = {}

NoFiles ==
  /\ f_cdigestignore = NoFile
  /\ f_gitignore = NoFile

NoDepth == [given |-> FALSE, value |-> 0]

NoFault == [dir |-> <<>>, error |-> "none"]

NoFileFault == [file |-> <<>>, site |-> "none", error |-> "none"]

NoSummary == [size |-> 0, size_kb |-> 0]

WalkIdle ==
  /\ w_cfg = [base |-> <<>>, patterns |-> {}, include_git |-> FALSE, max_depth |-> NoDepth]
  /\ w_fault = NoFault
  /\ w_filefault = NoFileFault
  /\ w_stack = <<>>
  /\ w_log = {}
  /\ w_status = "idle"
  /\ w_data = NoNode

NoProbe == File(FALSE, <<>>)

ProbeIdle ==
  /\ p_pc = "idle"
  /\ p_file = NoProbe
  /\ p_result = FALSE

NoFormatArgs == [colored |-> FALSE, show_size |-> FALSE, show_ignored |-> FALSE]

FormatIdle ==
  /\ g_pc = "idle"
  /\ g_node = NoNode
  /\ g_args = NoFormatArgs
  /\ g_tree_string = <<>>
  /\ g_content = <<>>
  /\ g_summary = NoSummary

NoMainArgs == [max_size |-> 0, copy_to_clipboard |-> FALSE]

NoAnswer == [asked |-> FALSE, answer |-> ""]

NoExit == [exited |-> FALSE, status |-> 0]

MainIdle ==
  /\ a_pc = "idle"
  /\ a_args = NoMainArgs
  /\ a_files = <<>>
  /\ a_estimated = 0
  /\ a_proceed = NoAnswer
  /\ a_called = FALSE
  /\ a_written = FALSE
  /\ a_copied = FALSE
  /\ a_exit = NoExit

InitMatch ==
  /\ m_pc = "call"
  /\ m_base \in Bases
  /\ m_segs \in SegPaths
  /\ m_patterns \in PatternSets
  /\ m_result = FALSE
  /\ NoFiles
  /\ LoadIdle
  /\ ManagerIdle
  /\ WalkIdle
  /\ ProbeIdle
  /\ FormatIdle
  /\ MainIdle

\* the call should_ignore(item_path, base_path, ignore_patterns) returns
Match ==
  /\ m_pc = "call"
  /\ m_result' = should_ignore(PathOf(m_base, m_segs), m_base, m_patterns)
  /\ m_pc' = "done"
  /\ UNCHANGED <<m_base, m_segs, m_patterns, fvars, lvars, kvars, wvars, pvars, gvars, avars>>

NextMatch == Match

SpecMatch == InitMatch /\ [][NextMatch]_vars


(***************************************************************************)
(* Inputs of the loaders: an ignore file is lines joined by newlines, so   *)
(* it ends in a newline exactly when its last line is empty.               *)
(***************************************************************************)
L_empty == <<>>
L_blank == <<" ">>
L_f == <<"f">>
L_b == <<"b">>
L_comment == <<"#">>
L_padded == <<" ", "f", " ">>
L_indented == <<" ", "#">>

LineSet == {L_empty, L_blank, L_f, L_b, L_comment, L_padded, L_indented}

FileTexts(n) == {JoinWith(ls, NL) : ls \in UNION {[1..k -> LineSet] : k \in 0..n}}

FilesOf(texts) == {[exists |-> TRUE, content |-> c] : c \in texts}

\* args of main: --no-default-ignores and --ignore
ArgsSet ==
  [no_default_ignores : BOOLEAN, ignore : {<<>>, <<N_tx, <<"b">>, <<".", "g", "i", "t">>>>}]

\* base_path holds no ignore file, a .cdigestignore or a .gitignore
InitLoad ==
  /\ \/ NoFiles
     \/ f_cdigestignore \in FilesOf(FileTexts(MaxLines)) /\ f_gitignore = NoFile
     \/ f_cdigestignore = NoFile /\ f_gitignore \in FilesOf(FileTexts(MaxLines))
  /\ l_pc = "start"
  /\ l_args = NoArgs
  /\ l_patterns = {}
  /\ l_gitlist = <<>>
  /\ MatchIdle
  /\ ManagerIdle
  /\ WalkIdle
  /\ ProbeIdle
  /\ FormatIdle
  /\ MainIdle

\* load_ignore_patterns(args, base_path) returns
LoadIgnorePatterns ==
  /\ l_pc = "start"
  /\ \E args \in ArgsSet :
       /\ l_args' = args
       /\ l_patterns' = load_ignore_patterns(args, f_cdigestignore)
  /\ l_pc' = "loaded"
  /\ UNCHANGED <<l_gitlist, mvars, fvars, kvars, wvars, pvars, gvars, avars>>

\* load_gitignore(base_path) returns
LoadGitignore ==
  /\ l_pc = "start"
  /\ l_gitlist' = load_gitignore(f_gitignore)
  /\ l_pc' = "gitignore"
  /\ UNCHANGED <<l_args, l_patterns, mvars, fvars, kvars, wvars, pvars, gvars, avars>>

NextLoad == LoadIgnorePatterns \/ LoadGitignore

SpecLoad == InitLoad /\ [][NextLoad]_vars

\* the configurations of an IgnorePatternManager
ManagerConfigs ==
  [load_default_ignore_patterns : BOOLEAN, load_gitignore : BOOLEAN,
   load_cdigestignore : BOOLEAN, extra_ignore_patterns : {{}, {N_tx}}]

\* the .cdigestignore beside the .gitignore: the line 'b' and a comment
C_other == <<"b", NL, "#", NL>>

InitManager ==
  /\ f_gitignore \in {NoFile} \cup FilesOf(FileTexts(MaxGitLines))
  /\ f_cdigestignore \in {NoFile, [exists |-> TRUE, content |-> C_other]}
  /\ k_pc = "start"
  /\ k_cfg = NoCfg
  /\ k_patterns = {}
  /\ MatchIdle
  /\ LoadIdle
  /\ WalkIdle
  /\ ProbeIdle
  /\ FormatIdle
  /\ MainIdle

\* IgnorePatternManager(base_path, ...) is constructed
ManagerInit ==
  /\ k_pc = "start"
  /\ \E cfg \in ManagerConfigs :
       /\ k_cfg' = cfg
       /\ k_patterns' = IgnorePatternManager(cfg, f_gitignore, f_cdigestignore)
  /\ k_pc' = "done"
  /\ UNCHANGED <<mvars, fvars, lvars, wvars, pvars, gvars, avars>>

NextManager == ManagerInit

SpecManager == InitManager /\ [][NextManager]_vars

(***************************************************************************)
(* is_text_file on its own: the files are runs of one text byte, up to     *)
(* MaxExtra bytes longer than the chunk is_text_file reads, with at most   *)
(* one byte that is not a text byte, and may be impossible to open.        *)
(***************************************************************************)
FillBytes == {7, 13, 27, 32, 255}

OddBytes == {0, 6, 11, 14, 26, 28, 31}

ProbeLengths == (0..2) \cup ((ChunkSize - 1)..(ChunkSize + MaxExtra))

\* where the odd byte is; a position beyond the length means there is none
OddPositions == (0..2) \cup ((ChunkSize - 1)..(ChunkSize + MaxExtra))

FileBytes(n, k, fill, odd) == [i \in 1..n |-> IF i = k THEN odd ELSE fill]

ProbeFiles ==
  {File(r, FileBytes(n, k, fill, odd)) :
     r \in BOOLEAN, n \in ProbeLengths, k \in OddPositions, fill \in FillBytes,
     odd \in OddBytes}

InitProbe ==
  /\ p_pc = "call"
  /\ p_file \in ProbeFiles
  /\ p_result = FALSE
  /\ MatchIdle
  /\ NoFiles
  /\ LoadIdle
  /\ ManagerIdle
  /\ WalkIdle
  /\ FormatIdle
  /\ MainIdle

\* the call is_text_file(file_path) returns
Probe ==
  /\ p_pc = "call"
  /\ p_result' = is_text_file(p_file)
  /\ p_pc' = "done"
  /\ UNCHANGED <<p_file, mvars, fvars, lvars, kvars, wvars, gvars, avars>>

NextProbe == Probe

SpecProbe == InitProbe /\ [][NextProbe]_vars

(***************************************************************************)
(* analyze_directory(path, ignore_patterns, base_path, include_git,        *)
(* max_depth), called by main with path = base_path = args.path.  Each     *)
(* frame of w_stack is one call: the entry it analyzes (segs), its path    *)
(* string, current_depth, the listing and the index of the item the loop   *)
(* is at, the local is_ignored and the result under construction.          *)
(***************************************************************************)
P_bin == <<"*", ".", "b">>
P_subsub == <<"s", "u", "b", "/", "s", "u", "b">>

WalkBases == {B_dot, B_abs}

WalkPatternSets == {{}, {P_bin, D_p}, {P_subsub}, DEFAULT_IGNORE_PATTERNS}

DepthArgs == {NoDepth} \cup {[given |-> TRUE, value |-> d] : d \in 0..MaxDepthArg}

\* no listing fails, or os.listdir of one directory raises PermissionError or
\* another OSError
Faults == {NoFault} \cup [dir : Dirs, error : {"PermissionError", "OSError"}]

\* the files one of whose calls may fail: those of the root and of the
\* directories 'sub' nested in it
FaultFiles ==
  {Append(d, f) : d \in {x \in Dirs : IsChain(x) /\ Len(x) < FsDepth}, f \in FileNames}

\* no call on a file fails, or for one file os.path.getsize raises
\* PermissionError or another OSError, or the open of is_text_file or of
\* read_file_content raises PermissionError
FileFaults ==
  {NoFileFault}
    \cup [file : FaultFiles, site : {"getsize"}, error : {"PermissionError", "OSError"}]
    \cup [file : FaultFiles, site : {"open_rb", "open_r"}, error : {"PermissionError"}]

Frame(segs, path, depth) ==
  [segs |-> segs, path |-> path, depth |-> depth, pc |-> "enter", items |-> <<>>,
   idx |-> 1, is_ignored |-> FALSE, result |-> NoNode]

InitWalk ==
  /\ w_cfg \in [base : WalkBases, patterns : WalkPatternSets, include_git : BOOLEAN,
                max_depth : DepthArgs]
  /\ w_fault \in Faults
  /\ w_filefault \in FileFaults
  /\ w_fault = NoFault \/ w_filefault = NoFileFault
  /\ w_stack = <<Frame(<<>>, w_cfg.base, 0)>>
  /\ w_log = {}
  /\ w_status = "running"
  /\ w_data = NoNode
  /\ MatchIdle
  /\ NoFiles
  /\ LoadIdle
  /\ ManagerIdle
  /\ ProbeIdle
  /\ FormatIdle
  /\ MainIdle

Top == w_stack[Len(w_stack)]

Callers == SubSeq(w_stack, 1, Len(w_stack) - 1)

Item == Top.items[Top.idx]

ItemSegs == Append(Top.segs, Item)

\* item_path = os.path.join(path, item)
ItemPath == join(Top.path, Item)

ReplaceTop(stack, frame) == [stack EXCEPT ![Len(stack)] = frame]

\* the call on top of the stack returns value to its caller: the caller
\* stamps and appends it unless it is None (lines 125-127); the root's caller
\* is main
Return(value) ==
  IF Len(Callers) = 0
  THEN /\ w_stack' = <<>>
       /\ w_status' = "returned"
       /\ w_data' = value
  ELSE LET caller == Callers[Len(Callers)]
           stamped == [value EXCEPT !.is_ignored = caller.is_ignored]
           children == IF value = NoNode THEN caller.result.children
                       ELSE Append(caller.result.children, stamped)
       IN  /\ w_stack' = ReplaceTop(Callers,
                           [caller EXCEPT !.pc = "loop", !.idx = caller.idx + 1,
                                          !.result.children = children])
           /\ UNCHANGED <<w_status, w_data>>

\* lines 85-86: the depth limit is exceeded, the call returns None
DepthStop ==
  /\ w_status = "running"
  /\ Top.pc = "enter"
  /\ depth_exceeded(w_cfg.max_depth, Top.depth)
  /\ Return(NoNode)
  /\ UNCHANGED <<w_cfg, w_fault, w_filefault, w_log, mvars, fvars, lvars, kvars, pvars, gvars, avars>>

\* lines 88-91: the result is created and os.listdir succeeds
ListDir ==
  /\ w_status = "running"
  /\ Top.pc = "enter"
  /\ ~depth_exceeded(w_cfg.max_depth, Top.depth)
  /\ ~(w_fault.error # "none" /\ w_fault.dir = Top.segs)
  /\ w_stack' = ReplaceTop(w_stack,
                  [Top EXCEPT !.pc = "loop", !.items = Listing(Top.segs),
                              !.result = DirectoryAnalysis(basename(Top.path))])
  /\ UNCHANGED <<w_cfg, w_fault, w_filefault, w_log, w_status, w_data, mvars, fvars, lvars, kvars, pvars, gvars, avars>>

\* lines 91, 129-132: os.listdir raises PermissionError; it is caught and the
\* result, still without children, is returned
PermissionDenied ==
  /\ w_status = "running"
  /\ Top.pc = "enter"
  /\ ~depth_exceeded(w_cfg.max_depth, Top.depth)
  /\ w_fault.error # "none" /\ w_fault.dir = Top.segs
  /\ caught(w_fault.error)
  /\ Return(DirectoryAnalysis(basename(Top.path)))
  /\ UNCHANGED <<w_cfg, w_fault, w_filefault, w_log, mvars, fvars, lvars, kvars, pvars, gvars, avars>>

\* line 91: os.listdir raises an error no frame catches; analyze_directory
\* raises it to main
Propagate ==
  /\ w_status = "running"
  /\ Top.pc = "enter"
  /\ ~depth_exceeded(w_cfg.max_depth, Top.depth)
  /\ w_fault.error # "none" /\ w_fault.dir = Top.segs
  /\ ~caught(w_fault.error)
  /\ w_stack' = <<>>
  /\ w_status' = "raised"
  /\ UNCHANGED <<w_cfg, w_fault, w_filefault, w_log, w_data, mvars, fvars, lvars, kvars, pvars, gvars, avars>>

InLoop ==
  /\ w_status = "running"
  /\ Top.pc = "loop"
  /\ Top.idx <= Len(Top.items)

NextItem(frame) == [frame EXCEPT !.idx = frame.idx + 1]

\* lines 95-96: .git is skipped
SkipGit ==
  /\ InLoop
  /\ Item = D_git /\ ~w_cfg.include_git
  /\ w_stack' = ReplaceTop(w_stack, NextItem(Top))
  /\ UNCHANGED <<w_cfg, w_fault, w_filefault, w_log, w_status, w_data, mvars, fvars, lvars, kvars, pvars, gvars, avars>>

\* lines 98-99: is_ignored is computed and the debug line printed (the size
\* read on lines 101-102 is not used)
CheckItem ==
  /\ InLoop
  /\ ~(Item = D_git /\ ~w_cfg.include_git)
  /\ \E is_ignored \in {should_ignore(ItemPath, w_cfg.base, w_cfg.patterns)} :
         /\ w_stack' = ReplaceTop(w_stack,
                         [Top EXCEPT !.pc = "checked", !.is_ignored = is_ignored])
         /\ w_log' = w_log \cup
                       {[segs |-> ItemSegs, path |-> ItemPath, ignored |-> is_ignored]}
  /\ UNCHANGED <<w_cfg, w_fault, w_filefault, w_status, w_data, mvars, fvars, lvars, kvars, pvars, gvars, avars>>

AtChecked ==
  /\ w_status = "running"
  /\ Top.pc = "checked"

FailsAt(segs, site) == w_filefault.file = segs /\ w_filefault.site = site

\* the file as open(file_path, 'rb') of is_text_file finds it
ProbedFile(segs) == File(~FailsAt(segs, "open_rb"), BytesOf(segs))

\* the file as open(file_path, 'r') of read_file_content finds it
ReadFile(segs) == File(~FailsAt(segs, "open_r"), BytesOf(segs))

\* os.path.getsize(item_path) is called for the item, on line 102 (a text
\* file, ignored or not) or on line 111 (a file that is not ignored), and
\* raises
GetsizeFails ==
  /\ isfile(ItemSegs)
  /\ is_text_file(ProbedFile(ItemSegs)) \/ ~Top.is_ignored
  /\ FailsAt(ItemSegs, "getsize")

\* lines 102, 111, 129-132: os.path.getsize raises PermissionError; it is
\* caught by the call whose loop it left, which returns the result it has
GetsizeDenied ==
  /\ AtChecked
  /\ GetsizeFails
  /\ caught(w_filefault.error)
  /\ Return(Top.result)
  /\ UNCHANGED <<w_cfg, w_fault, w_filefault, w_log, mvars, fvars, lvars, kvars, pvars, gvars, avars>>

\* lines 102, 111: os.path.getsize raises an error no frame catches;
\* analyze_directory raises it to main
GetsizeRaises ==
  /\ AtChecked
  /\ GetsizeFails
  /\ ~caught(w_filefault.error)
  /\ w_stack' = <<>>
  /\ w_status' = "raised"
  /\ UNCHANGED <<w_cfg, w_fault, w_filefault, w_log, w_data, mvars, fvars, lvars, kvars, pvars, gvars, avars>>

\* lines 104-105: the item is ignored; the loop continues with the next one
SkipIgnored ==
  /\ AtChecked
  /\ ~GetsizeFails
  /\ Top.is_ignored
  /\ w_stack' = ReplaceTop(w_stack, NextItem([Top EXCEPT !.pc = "loop"]))
  /\ UNCHANGED <<w_cfg, w_fault, w_filefault, w_log, w_status, w_data, mvars, fvars, lvars, kvars, pvars, gvars, avars>>

\* lines 110-122: a file that is not ignored becomes a child
AddFile ==
  /\ AtChecked
  /\ ~Top.is_ignored
  /\ isfile(ItemSegs)
  /\ ~GetsizeFails
  /\ LET is_text == is_text_file(ProbedFile(ItemSegs))
         content == file_content(is_text, ReadFile(ItemSegs))
         child == TextFileAnalysis(Item, content, Top.is_ignored)
     IN  w_stack' = ReplaceTop(w_stack,
                      NextItem([Top EXCEPT !.pc = "loop",
                                           !.result.children = Append(@, child)]))
  /\ UNCHANGED <<w_cfg, w_fault, w_filefault, w_log, w_status, w_data, mvars, fvars, lvars, kvars, pvars, gvars, avars>>

\* lines 123-124: a directory that is not ignored is analyzed by a recursive
\* call, one level deeper
Recurse ==
  /\ AtChecked
  /\ ~Top.is_ignored
  /\ ~isfile(ItemSegs) /\ isdir(ItemSegs)
  /\ w_stack' = Append(w_stack, Frame(ItemSegs, ItemPath, Top.depth + 1))
  /\ UNCHANGED <<w_cfg, w_fault, w_filefault, w_log, w_status, w_data, mvars, fvars, lvars, kvars, pvars, gvars, avars>>

\* line 132: the loop is over, the call returns its result
ReturnResult ==
  /\ w_status = "running"
  /\ Top.pc = "loop"
  /\ Top.idx > Len(Top.items)
  /\ Return(Top.result)
  /\ UNCHANGED <<w_cfg, w_fault, w_filefault, w_log, mvars, fvars, lvars, kvars, pvars, gvars, avars>>

Next ==
  \/ DepthStop
  \/ ListDir
  \/ PermissionDenied
  \/ Propagate
  \/ SkipGit
  \/ CheckItem
  \/ GetsizeDenied
  \/ GetsizeRaises
  \/ SkipIgnored
  \/ AddFile
  \/ Recurse
  \/ ReturnResult

Spec == InitWalk /\ [][Next]_vars

(***************************************************************************)
(* The formatters.  A string is the sequence of its characters; a box      *)
(* drawing character and a colour escape sequence are one element each.    *)
(***************************************************************************)
\* "└── "
ELBOW == <<"U+2514", "U+2500", "U+2500", " ">>

\* "├── "
TEE == <<"U+251C", "U+2500", "U+2500", " ">>

\* "│   "
PIPE == <<"U+2502", " ", " ", " ">>

\* "    "
BLANK == <<" ", " ", " ", " ">>

\* " [IGNORED]"
IGNORED == <<" ", "[", "I", "G", "N", "O", "R", "E", "D", "]">>

Fore_GREEN == <<"ESC[32m">>

Fore_BLUE == <<"ESC[34m">>

Fore_YELLOW == <<"ESC[33m">>

Fore_RED == <<"ESC[31m">>

Style_RESET_ALL == <<"ESC[0m">>

Digits == <<"0", "1", "2", "3", "4", "5", "6", "7", "8", "9">>

\* str(n) of a natural number
RECURSIVE Str(_)
Str(n) == IF n < 10 THEN <<Digits[n + 1]>> ELSE Str(n \div 10) \o <<Digits[(n % 10) + 1]>>

\* node.size: the length of the content of a file, the sum of the sizes of
\* the children of a directory
RECURSIVE size(_)
size(node) ==
  IF node.type = "file" THEN Len(node.file_content)
  ELSE IF Len(node.children) = 0 THEN 0
  ELSE size(node.children[1]) + size([node EXCEPT !.children = Tail(@)])

\* f" ({node.size} bytes)"
SizeStr(node) == <<" ", "(">> \o Str(size(node)) \o <<" ", "b", "y", "t", "e", "s", ")">>

\* text in a colour, when the formatter is the coloured one
Coloured(colored, colour, text) ==
  IF colored THEN colour \o text \o Style_RESET_ALL ELSE text

NotIgnored(node) == ~node.is_ignored

\* every child is kept, whatever show_ignored is
visible_children_All(children, show_ignored) == children

\* lines 28-30: children = node.children, without the ignored ones unless
\* show_ignored
visible_children(children, show_ignored) ==
  IF ~show_ignored THEN SelectSeq(children, NotIgnored) ELSE children

\* generate_tree_string of OutputFormatterBase and, with colored, of
\* ColoredTextOutputFormatter; TreeOfChildren is its loop over
\* enumerate(children)
RECURSIVE generate_tree_string(_, _, _, _, _, _)
RECURSIVE TreeOfChildren(_, _, _, _, _, _)
generate_tree_string(colored, node, prefix, is_last, show_size, show_ignored) ==
  IF node.is_ignored /\ ~show_ignored THEN <<>>
  ELSE LET connector == IF is_last
                        THEN (IF colored THEN Fore_GREEN ELSE <<>>) \o ELBOW
                        ELSE TEE
           name == Coloured(colored, Fore_BLUE, node.name)
           size_str == IF show_size /\ node.type = "file"
                       THEN Coloured(colored, Fore_YELLOW, SizeStr(node))
                       ELSE <<>>
           ignored_str == IF node.is_ignored
                          THEN Coloured(colored, Fore_RED, IGNORED)
                          ELSE <<>>
           result == prefix \o connector \o name \o size_str \o ignored_str \o <<NL>>
       IN  IF node.type = "dir"
           THEN result \o TreeOfChildren(colored,
                            visible_children(node.children, show_ignored), 1,
                            prefix \o (IF is_last THEN BLANK ELSE PIPE),
                            show_size, show_ignored)
           ELSE result

TreeOfChildren(colored, children, i, prefix, show_size, show_ignored) ==
  IF i > Len(children) THEN <<>>
  ELSE generate_tree_string(colored, children[i], prefix, i = Len(children),
                            show_size, show_ignored)
         \o TreeOfChildren(colored, children, i + 1, prefix, show_size, show_ignored)

\* add_file_content(node, path) of generate_content_string: the entries it
\* appends to content; ContentOfChildren is its loop over node.children
RECURSIVE add_file_content(_, _)
RECURSIVE ContentOfChildren(_, _, _)
add_file_content(node, path) ==
  IF node.type = "file" /\ ~node.is_ignored /\ node.file_content # NON_TEXT
  THEN <<[path |-> join(path, node.name), content |-> node.file_content]>>
  ELSE IF node.type = "dir"
  THEN ContentOfChildren(node.children, 1, join(path, node.name))
  ELSE <<>>

ContentOfChildren(children, i, path) ==
  IF i > Len(children) THEN <<>>
  ELSE add_file_content(children[i], path) \o ContentOfChildren(children, i + 1, path)

generate_content_string(data) == add_file_content(data, <<>>)

\* f"{n / 1024:.2f}": n / 1024 in hundredths, rounded to the nearest, a tie to
\* the even one
Hundredths(n) ==
  LET q == (n * 100) \div KB
      r == (n * 100) % KB
  IN  IF 2 * r > KB \/ (2 * r = KB /\ q % 2 = 1) THEN q + 1 ELSE q

\* the tree without its ignored nodes
RECURSIVE WithoutIgnored(_)
WithoutIgnored(node) ==
  [node EXCEPT !.children =
     [i \in 1..Len(SelectSeq(node.children, NotIgnored)) |->
        WithoutIgnored(SelectSeq(node.children, NotIgnored)[i])]]

\* the summary reports the size of what is not ignored
generate_summary_string_SkipsIgnored(data) ==
  [size |-> size(WithoutIgnored(data)), size_kb |-> Hundredths(size(WithoutIgnored(data)))]

\* generate_summary_string: the size it reports, data.size, and the figure
\* it prints for it, in KB with two decimals
generate_summary_string(data) ==
  [size |-> size(data), size_kb |-> Hundredths(size(data))]

(***************************************************************************)
(* The trees the formatters are given: built with the node constructors as *)
(* analyze_directory builds them, from a directory that holds a.t, p,      *)
(* b.b and n.t (a text file whose text is '[Non-text file]'), p holding    *)
(* a.t, b.b and, down to FmtDepth levels, another p.  An entry may be      *)
(* absent, and a node may carry is_ignored.                                *)
(***************************************************************************)
F_n == <<"n", ".", "t">>

B_slash == <<"t", "/">>

\* the bytes of the files: a.t holds 'hi', b.b a NUL byte, n.t the text
\* '[Non-text file]'
FmtBytes(name) ==
  IF name = F_a THEN <<104, 105>> ELSE IF name = F_b THEN <<0, 98>> ELSE NON_TEXT

\* lines 112-121: the node of a file
FileNode(name, is_ignored) ==
  LET file == File(TRUE, FmtBytes(name))
  IN  TextFileAnalysis(name, file_content(is_text_file(file), file), is_ignored)

\* lines 88, 125-127: the node of a directory
DirNode(name, is_ignored, children) ==
  [DirectoryAnalysis(name) EXCEPT !.is_ignored = is_ignored, !.children = children]

IsNode(node) == node # NoNode

\* the children that are there, in listing order
Present(entries) == SelectSeq(entries, IsNode)

FileOpts(name) == {NoNode} \cup {FileNode(name, ig) : ig \in BOOLEAN}

RECURSIVE SubTrees(_)
SubTrees(d) ==
  IF d = 0 THEN {NoNode}
  ELSE {NoNode} \cup
       {DirNode(D_p, ig, Present(<<a, sub, b>>)) :
          ig \in BOOLEAN, a \in FileOpts(F_a), sub \in SubTrees(d - 1),
          b \in FileOpts(F_b)}

\* the name and the flag of the root: the name is the basename of the path
\* given, '.', '/w/t' or 't/'
RootHeads ==
  {<<basename(B_dot), FALSE>>, <<basename(B_abs), FALSE>>, <<basename(B_slash), FALSE>>,
   <<basename(B_abs), TRUE>>}

FormatTrees ==
  {DirNode(h[1], h[2], Present(<<a, sub, b, n>>)) :
     h \in RootHeads, a \in FileOpts(F_a), sub \in SubTrees(FmtDepth),
     b \in FileOpts(F_b), n \in {NoNode, FileNode(F_n, FALSE)}}

InitFormat ==
  /\ g_pc = "data"
  /\ g_node \in FormatTrees
  /\ g_args = NoFormatArgs
  /\ g_tree_string = <<>>
  /\ g_content = <<>>
  /\ g_summary = NoSummary
  /\ MatchIdle
  /\ NoFiles
  /\ LoadIdle
  /\ ManagerIdle
  /\ WalkIdle
  /\ ProbeIdle
  /\ MainIdle

\* PlainTextOutputFormatter.format(data): the tree with sizes and ignored
\* nodes, the summary and the contents
Format ==
  /\ g_pc = "data"
  /\ g_args' = [colored |-> FALSE, show_size |-> TRUE, show_ignored |-> TRUE]
  /\ g_tree_string' = generate_tree_string(FALSE, g_node, <<>>, TRUE, TRUE, TRUE)
  /\ g_summary' = generate_summary_string(g_node)
  /\ g_content' = generate_content_string(g_node)
  /\ g_pc' = "formatted"
  /\ UNCHANGED <<g_node, mvars, fvars, lvars, kvars, wvars, pvars, avars>>

\* main, lines 276-278: the coloured tree, as --show-size and --show-ignored
\* ask, and the summary
PrintSummary ==
  /\ g_pc = "formatted"
  /\ \E show_size \in BOOLEAN, show_ignored \in BOOLEAN :
       /\ g_args' = [colored |-> TRUE, show_size |-> show_size,
                     show_ignored |-> show_ignored]
       /\ g_tree_string' =
            generate_tree_string(TRUE, g_node, <<>>, TRUE, show_size, show_ignored)
  /\ g_summary' = generate_summary_string(g_node)
  /\ g_pc' = "printed"
  /\ UNCHANGED <<g_node, g_content, mvars, fvars, lvars, kvars, wvars, pvars, avars>>

NextFormat == Format \/ PrintSummary

SpecFormat == InitFormat /\ [][NextFormat]_vars

(***************************************************************************)
(* main, from the size estimate on.  The files are those os.walk yields    *)
(* to estimate_output_size: each has a size and is counted when it is not  *)
(* ignored and is a text file.  What main has done so far is kept in       *)
(* a_called (analyze_directory was called), a_written (the output file was *)
(* written) and a_copied (the output was copied to the clipboard).         *)
(***************************************************************************)
FileSizes == {0, 948, 949}

WalkedFiles == [size : FileSizes, counted : BOOLEAN]

FileLists == UNION {[1..n -> WalkedFiles] : n \in 0..MaxFiles}

\* args.max_size, in KB
MaxSizes == 0..3

\* what input_handler.get_input may return
Answers == {"y", "n", "Y", ""}

\* lines 153-168: the sizes of the counted files, 100 bytes for each of
\* them, and 1000 bytes
RECURSIVE estimate_output_size(_)
estimate_output_size(files) ==
  IF Len(files) = 0 THEN SummaryOverhead
  ELSE (IF files[1].counted THEN files[1].size + PerFileOverhead ELSE 0)
         + estimate_output_size(Tail(files))

\* line 239: estimated_size / 1024 > args.max_size
exceeds(estimated_size, max_size) == estimated_size > max_size * KB

\* only the answer 'n' declines
declined_OnlyN(proceed) == proceed = "n"

\* line 242: proceed != 'y'
declined(proceed) == proceed # "y"

InitMain ==
  /\ a_pc = "start"
  /\ a_args \in [max_size : MaxSizes, copy_to_clipboard : BOOLEAN]
  /\ a_files \in FileLists
  /\ a_estimated = 0
  /\ a_proceed = NoAnswer
  /\ a_called = FALSE
  /\ a_written = FALSE
  /\ a_copied = FALSE
  /\ a_exit = NoExit
  /\ MatchIdle
  /\ NoFiles
  /\ LoadIdle
  /\ ManagerIdle
  /\ WalkIdle
  /\ ProbeIdle
  /\ FormatIdle

\* line 231: the size is estimated
Estimate ==
  /\ a_pc = "start"
  /\ a_estimated' = estimate_output_size(a_files)
  /\ a_pc' = "check"
  /\ UNCHANGED <<a_args, a_files, a_proceed, a_called, a_written, a_copied, a_exit,
                 mvars, fvars, lvars, kvars, wvars, pvars, gvars>>

\* lines 239, 245-247: the estimate does not exceed max_size
WithinLimit ==
  /\ a_pc = "check"
  /\ ~exceeds(a_estimated, a_args.max_size)
  /\ a_pc' = "analyze"
  /\ UNCHANGED <<a_args, a_files, a_estimated, a_proceed, a_called, a_written, a_copied,
                 a_exit, mvars, fvars, lvars, kvars, wvars, pvars, gvars>>

\* lines 239-241: the estimate exceeds max_size; the user is asked
Ask ==
  /\ a_pc = "check"
  /\ exceeds(a_estimated, a_args.max_size)
  /\ \E answer \in Answers : a_proceed' = [asked |-> TRUE, answer |-> answer]
  /\ a_pc' = "asked"
  /\ UNCHANGED <<a_args, a_files, a_estimated, a_called, a_written, a_copied, a_exit,
                 mvars, fvars, lvars, kvars, wvars, pvars, gvars>>

\* lines 242-244: sys.exit(0)
Abort ==
  /\ a_pc = "asked"
  /\ declined(a_proceed.answer)
  /\ a_exit' = [exited |-> TRUE, status |-> 0]
  /\ a_pc' = "exited"
  /\ UNCHANGED <<a_args, a_files, a_estimated, a_proceed, a_called, a_written, a_copied,
                 mvars, fvars, lvars, kvars, wvars, pvars, gvars>>

\* line 242: the answer is 'y'
Proceed ==
  /\ a_pc = "asked"
  /\ ~declined(a_proceed.answer)
  /\ a_pc' = "analyze"
  /\ UNCHANGED <<a_args, a_files, a_estimated, a_proceed, a_called, a_written, a_copied,
                 a_exit, mvars, fvars, lvars, kvars, wvars, pvars, gvars>>

\* lines 250-265: analyze_directory returns and the output is formatted
Analyze ==
  /\ a_pc = "analyze"
  /\ a_called' = TRUE
  /\ a_pc' = "save"
  /\ UNCHANGED <<a_args, a_files, a_estimated, a_proceed, a_written, a_copied, a_exit,
                 mvars, fvars, lvars, kvars, wvars, pvars, gvars>>

\* lines 250, 296-298: analyze_directory raises; sys.exit(1)
AnalyzeFails ==
  /\ a_pc = "analyze"
  /\ a_called' = TRUE
  /\ a_exit' = [exited |-> TRUE, status |-> 1]
  /\ a_pc' = "exited"
  /\ UNCHANGED <<a_args, a_files, a_estimated, a_proceed, a_written, a_copied,
                 mvars, fvars, lvars, kvars, wvars, pvars, gvars>>

\* lines 268-272: the output file is written
Save ==
  /\ a_pc = "save"
  /\ a_written' = TRUE
  /\ a_pc' = "clipboard"
  /\ UNCHANGED <<a_args, a_files, a_estimated, a_proceed, a_called, a_copied, a_exit,
                 mvars, fvars, lvars, kvars, wvars, pvars, gvars>>

\* lines 270, 296-298: the output file cannot be opened; sys.exit(1)
SaveFails ==
  /\ a_pc = "save"
  /\ a_exit' = [exited |-> TRUE, status |-> 1]
  /\ a_pc' = "exited"
  /\ UNCHANGED <<a_args, a_files, a_estimated, a_proceed, a_called, a_written, a_copied,
                 mvars, fvars, lvars, kvars, wvars, pvars, gvars>>

\* lines 281-294: the output is copied when --copy-to-clipboard is given or
\* the answer to the second prompt is 'y', unless pyperclip fails
Clipboard ==
  /\ a_pc = "clipboard"
  /\ \E answer \in Answers, copy_works \in BOOLEAN :
       a_copied' = ((a_args.copy_to_clipboard \/ answer = "y") /\ copy_works)
  /\ a_pc' = "final"
  /\ UNCHANGED <<a_args, a_files, a_estimated, a_proceed, a_called, a_written, a_exit,
                 mvars, fvars, lvars, kvars, wvars, pvars, gvars>>

\* lines 300-305: main returns, or asks once more and exits with status 0
Finish ==
  /\ a_pc = "final"
  /\ a_exit' = [exited |-> TRUE, status |-> 0]
  /\ a_pc' = "exited"
  /\ UNCHANGED <<a_args, a_files, a_estimated, a_proceed, a_called, a_written, a_copied,
                 mvars, fvars, lvars, kvars, wvars, pvars, gvars>>

NextMain ==
  \/ Estimate
  \/ WithinLimit
  \/ Ask
  \/ Abort
  \/ Proceed
  \/ Analyze
  \/ AnalyzeFails
  \/ Save
  \/ SaveFails
  \/ Clipboard
  \/ Finish

SpecMain == InitMain /\ [][NextMain]_vars

(***************************************************************************)
(* What the claims about the matcher are stated with: the glob relation of *)
(* the specification (computed as the set of reachable positions, not by   *)
(* backtracking), and the candidate strings of a path that lies under      *)
(* base_path, built from its segments.                                     *)
(***************************************************************************)
\* the positions j of s such that the first i characters of p match s[1..j]
RECURSIVE GlobReach(_, _, _)
GlobReach(s, p, i) ==
  IF i = 0 THEN {0}
  ELSE LET before == GlobReach(s, p, i - 1)
       IN  IF p[i] = "*" THEN {j \in 0..Len(s) : \E k \in before : k <= j}
           ELSE IF p[i] = "?" THEN {k + 1 : k \in {x \in before : x < Len(s)}}
           ELSE {k + 1 : k \in {x \in before : x < Len(s) /\ s[x + 1] = p[i]}}

\* p glob-matches the whole of s: '*' any run of characters, '?' one character
GlobSpec(s, p) == Len(s) \in GlobReach(s, p, Len(p))

\* the absolute form of each base_path of the model
AbsOfBase(b) == IF b = B_dot THEN Cwd ELSE B_abs

RelOfSegs(segs) == JoinWith(segs, SEP)

AbsOfSegs(b, segs) == AbsOfBase(b) \o <<SEP>> \o RelOfSegs(segs)

IsBare(p) == \A i \in 1..Len(p) : p[i] \notin {"/", "*", "?"}

\* C2: should_ignore returns true if and only if some pattern of the set
\* glob-matches the basename, the path relative to base_path, the absolute
\* path, (for a pattern starting with '/') the absolute path against base_path
\* joined with the pattern minus its leading '/', or one segment of the
\* relative path; so it is false for the empty set and true when a pattern
\* equals the basename, at any depth.
Thm_C2_IgnoredIffSomeCandidateMatches ==
  m_pc = "done" =>
    /\ m_result <=>
         \E p \in m_patterns :
           \/ GlobSpec(m_segs[Len(m_segs)], p)
           \/ GlobSpec(RelOfSegs(m_segs), p)
           \/ GlobSpec(AbsOfSegs(m_base, m_segs), p)
           \/ /\ p[1] = "/"
              /\ GlobSpec(AbsOfSegs(m_base, m_segs), m_base \o <<SEP>> \o Tail(p))
           \/ \E k \in 1..Len(m_segs) : GlobSpec(m_segs[k], p)
    /\ (m_patterns = {} => ~m_result)
    /\ (m_segs[Len(m_segs)] \in m_patterns => m_result)

\* a '*' that has to run over a path separator decided the call
Wit_C2_StarCrossesSeparator ==
  /\ m_pc = "done"
  /\ m_result
  /\ m_patterns = {P_cross}
  /\ m_segs = <<N_sub, N_tx>>

\* C3 (as claimed): for a single pattern p that starts with '/', whatever
\* base_path is, should_ignore is true exactly when the path is base_path
\* joined with p minus its leading '/' (glob-matched).
Claim_C3_AnchoredExactlyAtBase ==
  (m_pc = "done" /\ \E p \in m_patterns : m_patterns = {p} /\ p[1] = "/") =>
    (m_result <=> \E p \in m_patterns : GlobSpec(RelOfSegs(m_segs), Tail(p)))

\* C4: for a single bare pattern without wildcards, should_ignore is true
\* exactly for the paths under base_path that have a segment equal to the
\* pattern, at any depth.
Thm_C4_BarePatternMatchesAnySegment ==
  (m_pc = "done" /\ \E p \in m_patterns : m_patterns = {p} /\ IsBare(p)) =>
    (m_result <=> \E p \in m_patterns : \E k \in 1..Len(m_segs) : m_segs[k] = p)

\* 'sub' ignores subd/sub/t.x through its middle segment
Wit_C4_MiddleSegment ==
  /\ m_pc = "done"
  /\ m_result
  /\ m_patterns = {P_sub}
  /\ m_segs = <<N_subd, N_sub, N_tx>>


(***************************************************************************)
(* What the claims about the loaders are stated with: the lines of a file  *)
(* as the text between its newlines, and a line trimmed of the whitespace  *)
(* around it (computed from the positions of its first and last other      *)
(* character).                                                             *)
(***************************************************************************)
LinesOf(content) == Split(content, NL)

IsBlank(l) == \A i \in 1..Len(l) : l[i] \in Whitespace

IsPatternLine(l) == ~IsBlank(l) /\ ~StartsWith(l, "#")

Trimmed(l) ==
  IF IsBlank(l) THEN <<>>
  ELSE LET ink == {i \in 1..Len(l) : l[i] \notin Whitespace}
           first == CHOOSE i \in ink : \A j \in ink : i <= j
           last == CHOOSE i \in ink : \A j \in ink : j <= i
       IN  SubSeq(l, first, last)

PatternLines(content) == SelectSeq(LinesOf(content), IsPatternLine)

SourceDefaults == IF l_args.no_default_ignores THEN {} ELSE DEFAULT_IGNORE_PATTERNS

SourceExtra == ListItems(l_args.ignore)

SourceFile ==
  IF f_cdigestignore.exists
  THEN {Trimmed(l) : l \in ListItems(PatternLines(f_cdigestignore.content))}
  ELSE {}

\* the sources merged one after the other, in the order given
RECURSIVE MergedInOrder(_)
MergedInOrder(sources) ==
  IF Len(sources) = 0 THEN {}
  ELSE update(MergedInOrder(SubSeq(sources, 1, Len(sources) - 1)), sources[Len(sources)])

SourceOrders ==
  LET srcs == <<SourceDefaults, SourceExtra, SourceFile>>
  IN  {[i \in 1..3 |-> srcs[f[i]]] : f \in {g \in [1..3 -> 1..3] : \A a, b \in 1..3 : a # b => g[a] # g[b]}}

Claim_C7_LinesAddedVerbatim ==
  /\ (l_pc = "loaded" /\ l_args = [no_default_ignores |-> TRUE, ignore |-> <<>>]
        /\ f_cdigestignore.exists) =>
       l_patterns = ListItems(PatternLines(f_cdigestignore.content))
  /\ (l_pc = "gitignore" /\ f_gitignore.exists) =>
       l_gitlist = PatternLines(f_gitignore.content)

\* C7 (amended): a blank line (empty or only whitespace) or a line whose first
\* character is '#' contributes no pattern, and every other line of the ignore
\* file contributes exactly one pattern: that line trimmed of the whitespace
\* around it.
Thm_C7_LinesAddedTrimmed ==
  /\ (l_pc = "loaded" /\ l_args = [no_default_ignores |-> TRUE, ignore |-> <<>>]
        /\ f_cdigestignore.exists) =>
       l_patterns = {Trimmed(l) : l \in ListItems(PatternLines(f_cdigestignore.content))}
  /\ (l_pc = "gitignore" /\ f_gitignore.exists) =>
       LET kept == PatternLines(f_gitignore.content)
       IN  l_gitlist = [i \in 1..Len(kept) |-> Trimmed(kept[i])]

\* the file 'f', '#', '', 'b' yields exactly the patterns f and b
Wit_C7_CommentAndBlankDropped ==
  /\ l_pc = "loaded"
  /\ l_args = [no_default_ignores |-> TRUE, ignore |-> <<>>]
  /\ f_cdigestignore = [exists |-> TRUE, content |-> <<"f", NL, "#", NL, NL, "b">>]
  /\ l_patterns = {L_f, L_b}


(***************************************************************************)
(* What the claims about the text probe are stated with.                   *)
(***************************************************************************)
\* the bytes a text file may hold: {7, 8, 9, 10, 12, 13, 27} and 0x20..0xFF
AllowedBytes == {7, 8, 9, 10, 12, 13, 27} \cup {b \in 0..255 : b >= 32}

\* C13: a file is classified as text exactly when it can be opened and none
\* of its first 1024 bytes lies outside the allowed set; so bytes after the
\* first 1024 never matter, an empty file is text, and a file that cannot be
\* opened is not text (the call returns, it does not raise).
Thm_C13_TextIffFirstChunkAllowed ==
  p_pc = "done" =>
    /\ p_result <=>
         /\ p_file.readable
         /\ \A i \in 1..Len(p_file.bytes) : i <= 1024 => p_file.bytes[i] \in AllowedBytes
    /\ (p_file.readable /\ Len(p_file.bytes) = 0) => p_result
    /\ ~p_file.readable => ~p_result

\* a file whose 1025th byte is a NUL is text
Wit_C13_OddByteAfterChunk ==
  /\ p_pc = "done"
  /\ Len(p_file.bytes) > 1024
  /\ p_file.bytes[1025] = 0
  /\ p_result


(***************************************************************************)
(* What the claims about the walker are stated with: the nodes of the      *)
(* returned tree, found by the names from the root down.                   *)
(***************************************************************************)
ChildrenOf(node) == {node.children[i] : i \in 1..Len(node.children)}

\* the nodes of the tree reached from node by following the names of segs
RECURSIVE NodesAt(_, _)
NodesAt(node, segs) ==
  IF Len(segs) = 0 THEN {node}
  ELSE UNION {NodesAt(c, Tail(segs)) : c \in {x \in ChildrenOf(node) : x.name = segs[1]}}

RECURSIVE AllNodes(_)
AllNodes(node) == {node} \cup UNION {AllNodes(c) : c \in ChildrenOf(node)}

Returned == w_status = "returned"

LastOf(segs) == segs[Len(segs)]

\* the entry lies deeper than max_depth allows a directory to be
BeyondDepth(segs) == w_cfg.max_depth.given /\ Len(segs) > w_cfg.max_depth.value

\* C1 (as claimed): every entry analyze_directory visits (a skipped .git
\* aside) for which should_ignore returns true has a child node in the
\* returned tree, under its parent, with is_ignored = true.
Claim_C1_IgnoredEntriesAreAnnotated ==
  Returned =>
    \A e \in w_log : e.ignored => \E n \in NodesAt(w_data, e.segs) : n.is_ignored

\* C8: with a maximum depth d >= 0 the call returns a root node; no directory
\* deeper than d has a node in the tree; every directory at depth <= d that
\* the matcher found not ignored has one; with d = 0 the root has no
\* directory among its children.
Thm_C8_DepthLimitOmitsDeeperDirectories ==
  (Returned /\ w_cfg.max_depth.given) =>
    /\ w_data.type = "dir"
    /\ \A segs \in Dirs : BeyondDepth(segs) => NodesAt(w_data, segs) = {}
    /\ \A e \in w_log :
         (isdir(e.segs) /\ ~e.ignored /\ ~BeyondDepth(e.segs)) =>
           NodesAt(w_data, e.segs) # {}
    /\ w_cfg.max_depth.value = 0 => \A c \in ChildrenOf(w_data) : c.type # "dir"

\* max_depth = 1: sub is in the tree; sub/sub was checked, found not ignored,
\* and is not in the tree
Wit_C8_SecondLevelOmitted ==
  /\ Returned
  /\ w_cfg.max_depth = [given |-> TRUE, value |-> 1]
  /\ NodesAt(w_data, <<D_sub>>) # {}
  /\ \E e \in w_log : e.segs = <<D_sub, D_sub>> /\ ~e.ignored
  /\ NodesAt(w_data, <<D_sub, D_sub>>) = {}

\* C9 (as claimed): without include_git no node of the tree is named .git and
\* the matcher is never consulted for a .git entry; with include_git a .git
\* entry is processed like any other directory entry and has a node in the
\* tree.
Claim_C9_GitSkippedOrIncluded ==
  Returned =>
    /\ ~w_cfg.include_git =>
         /\ \A n \in AllNodes(w_data) : n.name # D_git
         /\ \A e \in w_log : LastOf(e.segs) # D_git
    /\ w_cfg.include_git =>
         \A e \in w_log :
           (LastOf(e.segs) = D_git /\ ~BeyondDepth(e.segs)) => NodesAt(w_data, e.segs) # {}

\* the file at segs is one the probe classifies as text: it can be opened
\* and its first 1024 bytes are allowed bytes
TextByClaim(segs) ==
  /\ ~(w_filefault.file = segs /\ w_filefault.site = "open_rb")
  /\ \A i \in 1..Len(BytesOf(segs)) : i <= 1024 => BytesOf(segs)[i] \in AllowedBytes

\* the loop of the directory at segs went over every item: each one was
\* skipped as .git, or checked and then ignored, cut by the depth limit or
\* given a node
AnalyzedInFull(segs) ==
  \A k \in 1..Len(Listing(segs)) :
    LET item == Listing(segs)[k]
        isegs == Append(segs, item)
    IN  \/ item = D_git /\ ~w_cfg.include_git
        \/ \E e \in w_log :
             /\ e.segs = isegs
             /\ \/ e.ignored
                \/ isdir(isegs) /\ BeyondDepth(isegs)
                \/ NodesAt(w_data, isegs) # {}

\* the call on top of the stack has a next step to take: it is entering, in
\* its loop, or holds a checked item that is ignored, a file or a directory
CanStep ==
  /\ Len(w_stack) > 0
  /\ \/ Top.pc = "enter"
     \/ Top.pc = "loop"
     \/ Top.pc = "checked" /\ (Top.is_ignored \/ isfile(ItemSegs) \/ isdir(ItemSegs))

ParentOf(segs) == SubSeq(segs, 1, Len(segs) - 1)

\* os.path.getsize was called for the file: the walk checked it, and it is a
\* text file or not ignored
GetsizeReached(file) ==
  \E e \in w_log : e.segs = file /\ (TextByClaim(file) \/ ~e.ignored)

\* os.listdir was called for the directory: it is the root, or the walk
\* checked it, found it not ignored and within the depth limit
Entered(dir) ==
  \/ dir = <<>>
  \/ \E e \in w_log : e.segs = dir /\ ~e.ignored /\ ~BeyondDepth(dir)

\* os.path.getsize raised PermissionError in the loop of a directory
DeniedInLoop ==
  /\ w_filefault.site = "getsize"
  /\ w_filefault.error = "PermissionError"
  /\ GetsizeReached(w_filefault.file)

\* the names listed before name in the directory
ListedBefore(dir, name) ==
  {Listing(dir)[k] : k \in {j \in 1..Len(Listing(dir)) :
                               \A i \in 1..j : Listing(dir)[i] # name}}

\* C10: a PermissionError, of os.listdir or inside the loop of a directory,
\* never aborts the walk: when nothing fails with another error, nothing is
\* ever raised and the walk is never stuck before it returns; in the tree it
\* returns, a directory whose listing was denied has no children, a
\* directory whose loop was denied has children only among the items listed
\* before the failure, and every other directory of the tree is analyzed in
\* full.
Thm_C10_PermissionErrorIsContained ==
  (w_fault.error # "OSError" /\ w_filefault.error # "OSError") =>
    /\ w_status # "raised"
    /\ w_status = "running" => CanStep
    /\ (Returned /\ w_fault.error = "PermissionError") =>
         /\ w_data.type = "dir"
         /\ \A n \in NodesAt(w_data, w_fault.dir) : n.children = <<>>
         /\ \A segs \in Dirs \ {w_fault.dir} :
              NodesAt(w_data, segs) # {} => AnalyzedInFull(segs)
    /\ (Returned /\ DeniedInLoop) =>
         /\ w_data.type = "dir"
         /\ \A n \in NodesAt(w_data, ParentOf(w_filefault.file)) :
              \A c \in ChildrenOf(n) :
                c.name \in ListedBefore(ParentOf(w_filefault.file),
                                        LastOf(w_filefault.file))
         /\ \A segs \in Dirs \ {ParentOf(w_filefault.file)} :
              NodesAt(w_data, segs) # {} => AnalyzedInFull(segs)
    /\ (Returned /\ w_fault.error # "PermissionError" /\ ~DeniedInLoop) =>
         \A segs \in Dirs : NodesAt(w_data, segs) # {} => AnalyzedInFull(segs)

\* p is denied: its node is empty, and its siblings .git (listed before it)
\* and sub (listed after it) are analyzed down to their files
Wit_C10_SiblingsOfDeniedAnalyzed ==
  /\ Returned
  /\ w_fault = [dir |-> <<D_p>>, error |-> "PermissionError"]
  /\ \E n \in NodesAt(w_data, <<D_p>>) : n.children = <<>>
  /\ NodesAt(w_data, <<D_git, F_a>>) # {}
  /\ NodesAt(w_data, <<D_sub, F_b>>) # {}
  /\ NodesAt(w_data, <<D_sub, D_sub, F_a>>) # {}

\* a failure the walk does not absorb happened: os.listdir raised an error
\* other than PermissionError for a directory the walk entered, or
\* os.path.getsize did for a file it was called for
OtherFailure ==
  \/ w_fault.error = "OSError" /\ Entered(w_fault.dir)
  \/ /\ w_filefault.site = "getsize"
     /\ w_filefault.error = "OSError"
     /\ GetsizeReached(w_filefault.file)

\* C11: the call ends by raising exactly when a failure happened that is not
\* a permission error on a directory, a failed open of the text probe or a
\* failed open of the content read, at whatever depth; and a call that
\* raised returned no tree, whole or partial.
Thm_C11_OtherFailuresPropagate ==
  w_status \in {"returned", "raised"} =>
    /\ w_status = "raised" <=> OtherFailure
    /\ w_status = "raised" => (w_data = NoNode /\ w_stack = <<>>)

\* the listing of sub/sub, two levels down, fails after the root and sub
\* have already gained children
Wit_C11_RaisedFromSecondLevel ==
  /\ w_status = "raised"
  /\ w_fault = [dir |-> <<D_sub, D_sub>>, error |-> "OSError"]
  /\ w_data = NoNode

\* "[Non-text file]"
Sentinel == <<91, 78, 111, 110, 45, 116, 101, 120, 116, 32, 102, 105, 108, 101, 93>>

\* "Error reading file: "
ErrorPrefix ==
  <<69, 114, 114, 111, 114, 32, 114, 101, 97, 100, 105, 110, 103, 32, 102, 105, 108,
    101, 58, 32>>

IsErrorText(content) ==
  Len(content) >= Len(ErrorPrefix) /\ SubSeq(content, 1, Len(ErrorPrefix)) = ErrorPrefix

\* the files of the tree analyze_directory walks
AllFiles == {Append(d, f) : d \in Dirs, f \in FileNames}

\* C12: in the returned tree, the node of a file classified as not text
\* holds the sentinel '[Non-text file]', and the node of a file classified
\* as text holds the file's decoded content (the files of the model are
\* ASCII, which decodes to itself) or the error text.
Thm_C12_NonTextHoldsSentinel ==
  Returned =>
    \A f \in AllFiles : \A n \in NodesAt(w_data, f) :
      /\ n.type = "file"
      /\ IF TextByClaim(f)
         THEN n.file_content = BytesOf(f) \/ IsErrorText(n.file_content)
         ELSE n.file_content = Sentinel

\* b.b is binary and holds the sentinel, sub/a.t cannot be opened by the
\* probe and holds it too, a.t holds its text
Wit_C12_BinaryAndUnopenable ==
  /\ Returned
  /\ w_filefault = [file |-> <<D_sub, F_a>>, site |-> "open_rb", error |-> "PermissionError"]
  /\ \E n \in NodesAt(w_data, <<F_b>>) : n.file_content = Sentinel
  /\ \E n \in NodesAt(w_data, <<D_sub, F_a>>) : n.file_content = Sentinel
  /\ \E n \in NodesAt(w_data, <<F_a>>) : n.file_content = <<104, 105>>


(***************************************************************************)
(* What the claims about the formatters are stated with.                   *)
(***************************************************************************)
Formatted == g_pc \in {"formatted", "printed"}

\* the sum of the sizes of the children of node from the i-th on
RECURSIVE SumOfChildren(_, _)
SumOfChildren(node, i) ==
  IF i > Len(node.children) THEN 0
  ELSE size(node.children[i]) + SumOfChildren(node, i + 1)

\* the lengths of the contents of the files below node, ignored or not
RECURSIVE LeafSizes(_)
LeafSizes(node) ==
  IF node.type = "file" THEN <<Len(node.file_content)>>
  ELSE IF Len(node.children) = 0 THEN <<>>
  ELSE LeafSizes(node.children[1]) \o LeafSizes([node EXCEPT !.children = Tail(@)])

RECURSIVE SumSeq(_)
SumSeq(q) == IF Len(q) = 0 THEN 0 ELSE q[1] + SumSeq(Tail(q))

TextName(name) == \A i \in 1..Len(FmtBytes(name)) : FmtBytes(name)[i] \in AllowedBytes

\* the entries the claim expects for node, found under the names from the
\* root down to its parent
RECURSIVE ExpectedEntries(_, _)
RECURSIVE ExpectedOfChildren(_, _, _)
ExpectedEntries(node, names) ==
  IF node.type = "file"
  THEN IF ~node.is_ignored /\ TextName(node.name)
       THEN <<[path |-> JoinWith(Append(names, node.name), SEP),
               content |-> node.file_content]>>
       ELSE <<>>
  ELSE ExpectedOfChildren(node.children, 1, Append(names, node.name))

ExpectedOfChildren(children, i, names) ==
  IF i > Len(children) THEN <<>>
  ELSE ExpectedEntries(children[i], names) \o ExpectedOfChildren(children, i + 1, names)

\* C15 (as claimed): generate_content_string returns, in depth-first child
\* order, exactly one entry for every file node that is not ignored and
\* whose file was classified as text, whatever its content, and none for any
\* other node; the path of an entry is the node names from the root down,
\* joined by the separator.
Claim_C15_OneEntryPerTextFile ==
  Formatted => g_content = ExpectedEntries(g_node, <<>>)

ColourCodes == {"ESC[32m", "ESC[34m", "ESC[33m", "ESC[31m", "ESC[0m"}

NotColour(ch) == ch \notin ColourCodes

\* the characters of a line that are not colour escape sequences
Visible(line) == SelectSeq(line, NotColour)

\* the node gets a line of its own accord
Shown(node, show_ignored) == show_ignored \/ ~node.is_ignored

\* the nodes that are to be rendered, depth first: each with its depth and
\* whether it is the last child of its parent that is rendered
RECURSIVE Rendered(_, _, _, _)
RECURSIVE RenderedChildren(_, _, _, _)
Rendered(node, depth, last, show_ignored) ==
  IF ~Shown(node, show_ignored) THEN <<>>
  ELSE <<[name |-> node.name, ignored |-> node.is_ignored, depth |-> depth,
          last |-> last]>>
         \o RenderedChildren(node.children, 1, depth + 1, show_ignored)

RenderedChildren(children, i, depth, show_ignored) ==
  IF i > Len(children) THEN <<>>
  ELSE Rendered(children[i], depth,
                ~\E j \in (i + 1)..Len(children) : Shown(children[j], show_ignored),
                show_ignored)
         \o RenderedChildren(children, i + 1, depth, show_ignored)

\* the lines of the tree string, each ended by a newline
TreeLines ==
  LET parts == Split(g_tree_string, NL)
  IN  SubSeq(parts, 1, Len(parts) - 1)

EndsWithSeq(s, t) == Len(s) >= Len(t) /\ SubSeq(s, Len(s) - Len(t) + 1, Len(s)) = t

\* C16: the tree string has one line for each node that is to be rendered,
\* depth first: without show_ignored these are the nodes that are not
\* ignored and have no ignored ancestor, with it every node.  The line of a
\* node at depth d holds, after 4 d characters of indentation, the connector
\* and the name; below the root the connector is '└── ' for the last
\* rendered child of its parent and '├── ' for every other one; and the text
\* of the line (colour escape sequences aside) ends with ' [IGNORED]'
\* exactly when the node is ignored.
Thm_C16_TreeLinesFollowRenderedNodes ==
  Formatted =>
    /\ g_tree_string = <<>> \/ g_tree_string[Len(g_tree_string)] = NL
    /\ \E r \in {Rendered(g_node, 0, TRUE, g_args.show_ignored)}, lines \in {TreeLines} :
         /\ Len(lines) = Len(r)
         /\ \A k \in 1..Len(r) :
              \E v \in {Visible(lines[k])}, d \in {r[k].depth} :
                /\ Len(v) >= 4 * d + 4 + Len(r[k].name)
                /\ SubSeq(v, 4 * d + 5, 4 * d + 4 + Len(r[k].name)) = r[k].name
                /\ d > 0 =>
                     SubSeq(v, 4 * d + 1, 4 * d + 4) =
                       (IF r[k].last THEN <<"U+2514", "U+2500", "U+2500", " ">>
                        ELSE <<"U+251C", "U+2500", "U+2500", " ">>)
                /\ EndsWithSeq(v, <<" ", "[", "I", "G", "N", "O", "R", "E", "D", "]">>)
                     <=> r[k].ignored
                /\ g_args.show_ignored \/ ~r[k].ignored

\* without show_ignored: p is the last rendered child of the root although
\* the ignored b.b follows it, and a.t the last rendered child of p; the
\* tree string has the four lines of t, a.t, p and p/a.t
Wit_C16_LastRenderedChildIsNotLastChild ==
  /\ g_pc = "printed"
  /\ ~g_args.show_ignored
  /\ g_node = DirNode(<<"t">>, FALSE,
                <<FileNode(F_a, FALSE),
                  DirNode(D_p, FALSE, <<FileNode(F_a, FALSE), FileNode(F_b, TRUE)>>),
                  FileNode(F_b, TRUE)>>)
  /\ Len(TreeLines) = 4


(***************************************************************************)
(* What the claim about main is stated with.                               *)
(***************************************************************************)
\* the estimated size in bytes: the counted files, 100 bytes each on top,
\* and 1000 bytes
EstimateByClaim ==
  SumSeq([i \in 1..Len(a_files) |->
            IF a_files[i].counted THEN a_files[i].size + 100 ELSE 0]) + 1000

\* the estimated size in KB exceeds max_size
OverByClaim == EstimateByClaim > 1024 * a_args.max_size

\* C17: when the estimated size in KB exceeds max_size and the answer to
\* the prompt is not 'y', analyze_directory is never called, no output file
\* is written, nothing is copied, and the run ends with exit status 0; and
\* whenever an output file has been written, the estimate did not exceed
\* max_size or the answer was 'y'.
Thm_C17_DeclinedRunStopsBeforeAnalysis ==
  /\ (OverByClaim /\ a_proceed.asked /\ a_proceed.answer # "y") =>
       /\ ~a_called /\ ~a_written /\ ~a_copied
       /\ a_exit.exited => a_exit.status = 0
  /\ (OverByClaim /\ a_pc \notin {"start", "check"}) => a_proceed.asked
  /\ a_written => (~OverByClaim \/ a_proceed.answer = "y")

\* an estimate of 2049 bytes against a max_size of 2 KB, answered 'Y': the
\* run has ended with status 0 and nothing done
Wit_C17_UpperCaseAnswerAborts ==
  /\ a_exit = [exited |-> TRUE, status |-> 0]
  /\ a_estimated = 2049
  /\ a_args.max_size = 2
  /\ a_proceed = [asked |-> TRUE, answer |-> "Y"]
  /\ ~a_called /\ ~a_written /\ ~a_copied


=============================================================================
